---- MODULE Spec2Model ----
(***************************************************************************)
(* State-machine model of the SteamUp! client (frontend/src/App.js, the    *)
(* first App component, lines 17-1815): the React state of the component,  *)
(* the asynchronous handlers that fetch from the remote service, and the   *)
(* pure helpers of the render path.                                        *)
(*                                                                         *)
(* A handler runs to its first await in one step (it reads the state of    *)
(* the render that created it, and its set-state calls take effect         *)
(* together); the continuation after the await is a second step that runs  *)
(* when the response arrives.  Requests in flight sit in `pending` with    *)
(* everything the continuation reads from its closure.                     *)
(***************************************************************************)
EXTENDS Integers, Sequences, FiniteSets, TLC

(***************************************************************************)
(* Bounds of the model                                                     *)
(***************************************************************************)
\* page size of the listing and search endpoints (limit=24 in the code),
\* scaled to the size of the modelled catalog
PageLimit == 2
\* requests the user issues in one behaviour
MaxRequests == 3
\* the same, for the behaviours that only page and filter
MaxPagingRequests == 4
\* the same, for the behaviours that like games and ask for recommendations
MaxRecRequests == 2
\* requests in flight at the same time
MaxInflight == 2
\* liked games held at the same time
MaxLiked == 1
\* largest totalPages the page-window specification draws
MaxWindowPages == 20
\* liked games localStorage may hold when the page is opened
MaxStored == 2
\* requests the user may issue where progress is checked
MaxLiveRequests == 2
\* length of the titles getPlaceholderImage is given in every combination
MaxTitleLen == 4

(***************************************************************************)
(* Program constants                                                       *)
(***************************************************************************)
maxVisiblePages == 5

Tabs == {"explore", "liked", "content", "constraint", "hybrid", "stats"}
SortCriteria == {"popularity", "alphabetical", "price-low", "price-high", "rating"}
GameTypes == {"all", "free", "discount", "paid"}
Methods == {"cosine", "jaccard"}
Queries == {"", "war"}

\* sortMap / orderMap of loadGames
sortMap(c) ==
  CASE c = "alphabetical" -> "title"
    [] c = "price-low" -> "discounted_price"
    [] c = "price-high" -> "discounted_price"
    [] c = "rating" -> "overall_sentiment_score"

orderMap(c) ==
  CASE c = "alphabetical" -> 1
    [] c = "price-low" -> 1
    [] c = "price-high" -> -1
    [] c = "rating" -> -1

(***************************************************************************)
(* JavaScript values.  An object is a function whose DOMAIN is the set of  *)
(* fields that are present; a || b picks b when a is absent or falsy.      *)
(***************************************************************************)
Has(obj, f) == f \in DOMAIN obj

\* obj.f || d for a numeric field (0 is falsy)
OrNum(obj, f, d) == IF Has(obj, f) /\ obj[f] # 0 THEN obj[f] ELSE d

\* obj.f || d for an array field (every array is truthy)
OrArr(obj, f, d) == IF Has(obj, f) THEN obj[f] ELSE d

Max(a, b) == IF a >= b THEN a ELSE b
Min(a, b) == IF a <= b THEN a ELSE b

Range(s) == {s[i] : i \in DOMAIN s}

\* Array.prototype.sort with a numeric comparator key[a] - key[b]: stable,
\* ascending in key (an element goes after every earlier element whose key
\* is not greater)
RECURSIVE InsertSorted(_, _, _)
InsertSorted(x, s, key) ==
  IF s = <<>> THEN <<x>>
  ELSE IF key[x] < key[Head(s)] THEN <<x>> \o s
  ELSE <<Head(s)>> \o InsertSorted(x, Tail(s), key)

RECURSIVE SortBy(_, _)
SortBy(s, key) ==
  IF s = <<>> THEN <<>>
  ELSE CHOOSE sorted \in {InsertSorted(s[Len(s)], front, key) :
                          front \in {SortBy(SubSeq(s, 1, Len(s) - 1), key)}} : TRUE

(***************************************************************************)
(* The remote service: a fixed catalog, listed in pages of PageLimit.      *)
(* Prices are integers and sentiment scores are in tenths.                 *)
(***************************************************************************)
Catalog == <<
  [title |-> "Echo",    discounted_price |-> 30, discount_percentage |-> 0,
   overall_sentiment_score |-> 3, popularity_score |-> 5],
  [title |-> "Delta",   discounted_price |-> 0,  discount_percentage |-> 0,
   overall_sentiment_score |-> 5, popularity_score |-> 4],
  [title |-> "Charlie", discounted_price |-> 20, discount_percentage |-> 0,
   overall_sentiment_score |-> 4, popularity_score |-> 3],
  [title |-> "Bravo",   discounted_price |-> 10, discount_percentage |-> 50,
   overall_sentiment_score |-> 2, popularity_score |-> 2],
  [title |-> "Alpha",   discounted_price |-> 40, discount_percentage |-> 0,
   overall_sentiment_score |-> 1, popularity_score |-> 1]
>>

CatalogGames == Range(Catalog)

\* position of a title in the collation order of String.prototype.localeCompare
LocaleRank(title) ==
  CASE title = "Alpha" -> 1
    [] title = "Bravo" -> 2
    [] title = "Charlie" -> 3
    [] title = "Delta" -> 4
    [] title = "Echo" -> 5
    [] OTHER -> 6

\* the titles the search endpoint matches to a query
SearchHits(q) == IF q = "war" THEN {"Echo", "Charlie", "Alpha"} ELSE {}

\* the service's own classification of a catalog entry
ServerType(g) ==
  IF g.discounted_price = 0 THEN "free"
  ELSE IF g.discount_percentage > 0 THEN "discount"
  ELSE "paid"

ServerKey(g, field) ==
  IF field = "title" THEN LocaleRank(g.title) ELSE g[field]

CeilDiv(n, d) == (n + d - 1) \div d

\* GET /games: filter by game_type, sort by the last sort_by/sort_order pair
\* of the query string, slice the page
ServerGames(req) ==
  LET srt == req.sorts[Len(req.sorts)]
      key == [g \in CatalogGames |-> srt[2] * ServerKey(g, srt[1])]
      keep(g) == req.game_type = "none" \/ ServerType(g) = req.game_type
      first == (req.page - 1) * PageLimit + 1
      last(hits) == Min(Len(hits), req.page * PageLimit)
      answer(hits) ==
        [games |-> IF first >= 1 /\ first <= last(hits)
                   THEN SubSeq(hits, first, last(hits)) ELSE <<>>,
         total |-> Len(hits),
         total_pages |-> CeilDiv(Len(hits), PageLimit)]
  IN CHOOSE body \in {answer(hits) : hits \in {SortBy(SelectSeq(Catalog, keep), key)}} :
       TRUE

\* GET /games/search: the matches in catalog order, at most `limit` of them
ServerSearch(req) ==
  LET keep(g) == /\ g.title \in SearchHits(req.q)
                 /\ (req.game_type = "none" \/ ServerType(g) = req.game_type)
      hits == SelectSeq(Catalog, keep)
      page == SubSeq(hits, 1, Min(Len(hits), PageLimit))
  IN [games |-> page, count |-> Len(page)]

\* the body of a non-success answer that still parses as JSON
ErrorBody == [detail |-> "error"]

\* the bodies the recommendation endpoints answer with: every bucket, or
\* only some of them
ContentBodies == {
  [results |-> [highly_similar |-> [games |-> <<Catalog[3]>>],
                moderately_similar |-> [games |-> <<Catalog[4]>>],
                somewhat_similar |-> [games |-> <<>>]]],
  [results |-> [highly_similar |-> [games |-> <<Catalog[5]>>]]] }

ConstraintBodies == {
  [results |-> [perfect_matches |-> [games |-> <<Catalog[1]>>],
                good_matches |-> [games |-> <<Catalog[2]>>],
                partial_matches |-> [games |-> <<>>]]],
  [results |-> [good_matches |-> [games |-> <<Catalog[4]>>]]] }

HybridBodies == {
  [recommendations |-> << [title |-> "Charlie", price |-> 20, original_price |-> 25,
                           discount |-> 20, sentiment |-> 4, reviews |-> 7,
                           hybrid_score |-> 9] >>],
  [message |-> "no recommendations"] }

(***************************************************************************)
(* Pure helpers of the client                                              *)
(***************************************************************************)
\* An integer too wide for one machine word, as <<hi, lo>> with the value
\* hi * 2^16 + lo and lo in 0..65535
Wide(hi, lo) == <<hi + (lo \div 65536), lo % 65536>>

\* hash << 5: the low 32 bits of hash, shifted, read as a signed 32-bit value
ShiftLeft5(h) ==
  LET low == h[2] * 32
      high == ((h[1] % 65536) * 32 + (low \div 65536)) % 65536
  IN <<IF high >= 32768 THEN high - 65536 ELSE high, low % 65536>>

\* title.charCodeAt(i) + ((hash << 5) - hash); the sum is a double and is
\* not cut to 32 bits
HashStep[h \in Int \X Int, code \in Nat] ==
  LET s == ShiftLeft5(h)
  IN Wide(s[1] - h[1], s[2] - h[2] + code)

\* the loop over the characters: hash[i] is the hash after the first i
HashOf(text) ==
  LET hash[i \in 0..Len(text)] ==
        IF i = 0 THEN <<0, 0>> ELSE HashStep[hash[i - 1], text[i]]
  IN hash[Len(text)]

\* hash % colors.length without Math.abs: the remainder of a negative hash
\* is negative
colorIndexSigned(h) ==
  IF h[1] < 0 THEN 0 - (((0 - h[1]) - h[2]) % 5) ELSE (h[1] + h[2]) % 5

\* Math.abs(hash) % colors.length (2^16 leaves the remainder 1)
colorIndex(h) ==
  IF h[1] < 0 THEN ((0 - h[1]) - h[2]) % 5 ELSE (h[1] + h[2]) % 5

colors == <<"8b5cf6", "ec4899", "06b6d4", "10b981", "f59e0b">>

\* colors[colorIndex]: undefined outside the array
ColorAt(index) == IF index \in 0..4 THEN colors[index + 1] ELSE "undefined"

\* title.length > 30 ? title.substring(0, 27) + '...' : title
shortTitle(text) ==
  IF Len(text) > 30 THEN SubSeq(text, 1, 27) \o <<46, 46, 46>> ELSE text

\* encodeURIComponent of one ASCII character: letters, digits and - _ . ! ~
\* * ' ( ) stay, any other becomes % and two hexadecimal digits
HexDigit(n) == IF n < 10 THEN 48 + n ELSE 55 + n

Unreserved ==
  (48..57) \cup (65..90) \cup (97..122) \cup {45, 95, 46, 33, 126, 42, 39, 40, 41}

EncodeChar(code) ==
  IF code \in Unreserved THEN <<code>>
  ELSE <<37, HexDigit(code \div 16), HexDigit(code % 16)>>

RECURSIVE encodedTitle(_)
encodedTitle(text) ==
  IF text = <<>> THEN <<>> ELSE EncodeChar(Head(text)) \o encodedTitle(Tail(text))

\* getPlaceholderImage(title): '' for the empty title, else the URL with its
\* two variable parts, the color and the encoded text
getPlaceholderImage(text) ==
  IF text = <<>> THEN [op |-> "getPlaceholderImage", url |-> "empty"]
  ELSE [op |-> "getPlaceholderImage", url |-> "placeholder",
        color |-> ColorAt(colorIndex(HashOf(text))),
        text |-> encodedTitle(shortTitle(text))]

\* the rank localeCompare gives an item as its argument: an absent title is
\* compared as the text "undefined"
TitleRank(g) == IF Has(g, "title") THEN LocaleRank(g.title) ELSE LocaleRank("undefined")

\* a.title.localeCompare(b.title) throws when a has no title. Which elements
\* Array.prototype.sort passes as a is left to the engine: with fewer than
\* two elements the comparator is not called, with no title at all every
\* call throws, and otherwise the sort may or may not throw.
SortOutcomes(gs, criterion) ==
  LET untitled == {i \in DOMAIN gs : ~Has(gs[i], "title")}
  IN IF criterion # "alphabetical" \/ Len(gs) < 2 \/ untitled = {} THEN {"sorted"}
     ELSE IF untitled = DOMAIN gs THEN {"thrown"}
     ELSE {"sorted", "thrown"}

\* handleSort: a sorted copy of the page under the current sort criterion
handleSort(gs, criterion) ==
  CASE criterion = "alphabetical" ->
         SortBy(gs, [g \in Range(gs) |-> TitleRank(g)])
    [] criterion = "price-low" ->
         SortBy(gs, [g \in Range(gs) |-> OrNum(g, "discounted_price", 0)])
    [] criterion = "price-high" ->
         SortBy(gs, [g \in Range(gs) |-> 0 - OrNum(g, "discounted_price", 0)])
    [] criterion = "rating" ->
         SortBy(gs, [g \in Range(gs) |-> 0 - OrNum(g, "overall_sentiment_score", 0)])
    [] OTHER -> gs

\* renderPagination: <<startPage, endPage>> of the visible page numbers
PageWindowUnadjusted(cur, total) ==
  LET startPage == Max(1, cur - (maxVisiblePages \div 2))
      endPage == Min(total, startPage + maxVisiblePages - 1)
  IN <<startPage, endPage>>

PageWindow(cur, total) ==
  LET startPage == Max(1, cur - (maxVisiblePages \div 2))
      endPage == Min(total, startPage + maxVisiblePages - 1)
  IN IF endPage - startPage + 1 < maxVisiblePages
     THEN <<Max(1, endPage - maxVisiblePages + 1), endPage>>
     ELSE <<startPage, endPage>>

\* renderPagination: the pageNumbers array (empty when the bar is not rendered)
renderPagination(cur, total) ==
  IF total <= 1 THEN <<>>
  ELSE LET w == PageWindow(cur, total)
       IN [i \in 1..(w[2] - w[1] + 1) |-> w[1] + i - 1]

\* the pages the enabled buttons of the pagination bar ask loadGames for
PageTargets(cur, total) ==
  IF total <= 1 THEN {}
  ELSE LET w == PageWindow(cur, total)
       IN (IF cur # 1 THEN {cur - 1} ELSE {})
          \cup (IF w[1] > 1 THEN {1} ELSE {})
          \cup Range(renderPagination(cur, total))
          \cup (IF w[2] < total THEN {total} ELSE {})
          \cup (IF cur # total THEN {cur + 1} ELSE {})

\* rec.a || rec.b || d over numeric fields
FirstNum(rec, fields, d) ==
  LET hit == {i \in DOMAIN fields : Has(rec, fields[i]) /\ rec[fields[i]] # 0}
  IN IF hit = {} THEN d
     ELSE rec[fields[CHOOSE i \in hit : \A j \in hit : i <= j]]

\* a field copied as it is; absent stays absent
Copied(rec, fields) == [f \in (fields \cap DOMAIN rec) |-> rec[f]]

\* the formatter getHybridRecommendations maps over data.recommendations
FormatHybrid(rec) ==
  LET price == FirstNum(rec, <<"price", "discounted_price">>, 0)
      originalPrice == FirstNum(rec, <<"original_price", "price">>, price)
  IN Copied(rec, {"title", "developer", "publisher", "release_year",
                  "memory_gb", "storage_gb", "os_type", "ssd_required"})
     @@ [discounted_price |-> price,
         original_price |-> originalPrice,
         discount_percentage |-> FirstNum(rec, <<"discount", "discount_percentage">>, 0),
         overall_sentiment_score |-> FirstNum(rec, <<"sentiment", "overall_sentiment_score">>, 5),
         all_reviews_count |-> FirstNum(rec, <<"reviews", "all_reviews_count">>, 0),
         tags |-> OrArr(rec, "tags", <<>>),
         categories |-> OrArr(rec, "categories", <<>>),
         features |-> OrArr(rec, "features", <<>>),
         languages |-> OrArr(rec, "languages", <<>>),
         link |-> IF Has(rec, "link") /\ rec.link # "" THEN rec.link ELSE "#",
         score |-> FirstNum(rec, <<"hybrid_score", "similarity", "score">>, 0)]

\* data.results?.<bucket>?.games || []
BucketGames(data, bucket) ==
  IF Has(data, "results") /\ Has(data.results, bucket) /\ Has(data.results[bucket], "games")
  THEN data.results[bucket].games
  ELSE <<>>

MapFormatHybrid(recs) == [i \in DOMAIN recs |-> FormatHybrid(recs[i])]

\* game.f || d over a text field: the empty text is falsy
OrStr(obj, f, d) == IF Has(obj, f) /\ obj[f] # "" THEN obj[f] ELSE d

\* getAccurateGameType with the discount looked at before the price
getAccurateGameTypeDiscountFirst(game) ==
  LET discounted_price == FirstNum(game, <<"discounted_price", "price">>, 0)
      discount_percentage == FirstNum(game, <<"discount_percentage", "discount">>, 0)
  IN IF discount_percentage > 0 THEN "discount"
     ELSE IF discounted_price = 0 THEN "free"
     ELSE "paid"

\* getAccurateGameType of an item that is not null
getAccurateGameType(game) ==
  LET discounted_price == FirstNum(game, <<"discounted_price", "price">>, 0)
      discount_percentage == FirstNum(game, <<"discount_percentage", "discount">>, 0)
  IN IF discounted_price = 0 THEN "free"
     ELSE IF discount_percentage > 0 THEN "discount"
     ELSE "paid"

\* gameData with an original price that does not fall back to the current one
GameDataNoFallback(game) ==
  Copied(game, {"release_year", "memory_gb", "storage_gb", "os_type", "ssd_required"})
  @@ [title |-> OrStr(game, "title", "Unknown Game"),
      developer |-> OrStr(game, "developer", "Unknown"),
      publisher |-> OrStr(game, "publisher", "Unknown"),
      discounted_price |-> FirstNum(game, <<"discounted_price", "price">>, 0),
      original_price |-> FirstNum(game, <<"original_price", "price">>, 0),
      discount_percentage |-> FirstNum(game, <<"discount_percentage", "discount">>, 0),
      overall_sentiment_score |-> FirstNum(game, <<"overall_sentiment_score", "sentiment">>, 5),
      all_reviews_count |-> FirstNum(game, <<"all_reviews_count", "reviews">>, 0),
      tags |-> OrArr(game, "tags", <<>>),
      categories |-> OrArr(game, "categories", <<>>),
      features |-> OrArr(game, "features", <<>>),
      languages |-> OrArr(game, "languages", <<>>),
      link |-> OrStr(game, "link", "#"),
      score |-> FirstNum(game, <<"score", "similarity", "hybrid_score">>, 0)]

\* the gameData object renderGameCard builds from the item it is given; the
\* sentiment default 0.5 is 5 tenths
GameDataOf(game) ==
  Copied(game, {"release_year", "memory_gb", "storage_gb", "os_type", "ssd_required"})
  @@ [title |-> OrStr(game, "title", "Unknown Game"),
      developer |-> OrStr(game, "developer", "Unknown"),
      publisher |-> OrStr(game, "publisher", "Unknown"),
      discounted_price |-> FirstNum(game, <<"discounted_price", "price">>, 0),
      original_price |-> FirstNum(game, <<"original_price", "discounted_price", "price">>, 0),
      discount_percentage |-> FirstNum(game, <<"discount_percentage", "discount">>, 0),
      overall_sentiment_score |-> FirstNum(game, <<"overall_sentiment_score", "sentiment">>, 5),
      all_reviews_count |-> FirstNum(game, <<"all_reviews_count", "reviews">>, 0),
      tags |-> OrArr(game, "tags", <<>>),
      categories |-> OrArr(game, "categories", <<>>),
      features |-> OrArr(game, "features", <<>>),
      languages |-> OrArr(game, "languages", <<>>),
      link |-> OrStr(game, "link", "#"),
      score |-> FirstNum(game, <<"score", "similarity", "hybrid_score">>, 0)]

(***************************************************************************)
(* State                                                                   *)
(***************************************************************************)
VARIABLES
  activeTab,        \* useState('explore')
  games,            \* the page of games on display
  likedGames,       \* the liked games, in the order they were liked
  recommendations,  \* the one slot the three recommendation modes share
  loading,          \* the one loading flag every fetch sets and clears
  initialLoading,   \* true while the loading screen replaces the application
  stats,            \* "null" or "loaded"
  available,        \* the option lists of the startup fetches that were stored
  searchQuery,
  sortBy,
  gameType,
  currentPage,
  totalPages,
  totalGames,
  selectedGame,
  showGameDetails,
  contentMethod,
  hybridMethod,
  initStep,         \* where loadInitialData stands
  pending,          \* the requests in flight, one per slot
  quota,            \* requests the user may still issue (bounds the behaviours)
  alert,            \* the alert() the last step raised, or "none"
  latestBrowse,     \* what the latest-quota browse fetch delivered, once it has
  latestRec,        \* the same for the latest-quota fetch of each recommendation mode
  pageNumbers,      \* the page list the pagination bar was last asked for
  storage,          \* what localStorage holds under the key 'likedGames'
  likedShape,       \* "array", or "null" when setLikedGames was given null
  likedUpdate,      \* the setLikedGames the load effect queued for the next render
  bootStorage,      \* what localStorage held when the page was opened
  failure,          \* "render" once a render has thrown and the tree is gone
  rawItem,          \* an item as a service delivers it
  gameData,         \* what renderGameCard makes of rawItem
  gameTypeAccurate, \* what getAccurateGameType makes of rawItem
  formatted,        \* what the hybrid formatter makes of rawItem
  preferences,      \* the four preference lists
  prefCall,         \* the last call of addTag, removeTag, addItem or removeItem
  titleGiven,       \* the title getPlaceholderImage is given, as its char codes
  image,            \* what getPlaceholderImage returned for it
  imageBefore,      \* the call of getPlaceholderImage before that one
  grid,             \* what handleSort returned to the render of the Explore grid
  startupLog        \* the startup fetches that were answered, and how

vars == <<activeTab, games, likedGames, recommendations, loading, initialLoading,
          stats, available, searchQuery, sortBy, gameType, currentPage, totalPages,
          totalGames, selectedGame, showGameDetails, contentMethod, hybridMethod,
          initStep, pending, quota, alert, latestBrowse, latestRec, pageNumbers,
          storage, likedShape, likedUpdate, bootStorage, failure, rawItem, gameData,
          gameTypeAccurate, formatted, preferences, prefCall, titleGiven, image, imageBefore, grid,
          startupLog>>

startupVars == <<initialLoading, stats, available, initStep, startupLog>>
browseVars == <<games, currentPage, totalPages, totalGames>>
filterVars == <<searchQuery, sortBy, gameType>>
detailVars == <<selectedGame, showGameDetails>>
methodVars == <<contentMethod, hybridMethod>>
ghostVars == <<latestBrowse, latestRec>>
storageVars == <<storage, likedShape, likedUpdate, bootStorage>>
normVars == <<rawItem, gameData, gameTypeAccurate, formatted>>
prefVars == <<preferences, prefCall>>
calcVars == <<titleGiven, image, imageBefore, grid>>

NullRec == [method |-> "null"]
NullGame == [null |-> TRUE]
NoRequest == [kind |-> "none", latest |-> FALSE]
NotDone == [done |-> FALSE]

RecModes == {"content", "constraint", "hybrid"}
StartupFetches == <<"stats", "tags", "languages", "developers", "publishers">>
Outcomes == {"ok", "http_error", "throw"}

Slots == 1..MaxInflight

\* the application is on screen: the loading screen is gone and no render
\* has thrown
Interactive == initialLoading = FALSE /\ failure # "render"

\* the state slot a request's answer is written to
Mode(kind) == IF kind \in {"games", "search"} THEN "browse" ELSE kind

FreeSlots == {i \in Slots : pending[i].kind = "none"}

CanIssue == quota > 0 /\ FreeSlots # {}

\* fetch(...): the request goes in flight; every earlier request of the same
\* mode that is still in flight stops being the latest one of its mode
Put(req) ==
  LET slot == CHOOSE i \in FreeSlots : \A j \in FreeSlots : i <= j
  IN [i \in Slots |->
        IF i = slot THEN req
        ELSE IF pending[i].kind # "none" /\ Mode(pending[i].kind) = Mode(req.kind)
             THEN [pending[i] EXCEPT !.latest = FALSE]
             ELSE pending[i]]

Take(i) == [pending EXCEPT ![i] = NoRequest]

Titles(gs) == [i \in DOMAIN gs |-> gs[i].title]

(***************************************************************************)
(* localStorage and JSON                                                   *)
(***************************************************************************)
\* localStorage.getItem('likedGames') === null
NoItem == [kind |-> "absent"]

\* a stored text that is not the JSON of an array: "" is the empty string,
\* "garbage" a text JSON.parse rejects, "null" the JSON text null
StoredText(t) == [kind |-> "text", text |-> t]

\* JSON.stringify of the likedGames state: the text of an array of items, or
\* the text null
Stringify(shape, items) ==
  IF shape = "array" THEN [kind |-> "json", items |-> items] ELSE StoredText("null")

\* if (stored): a missing item and the empty string are falsy
Truthy(stored) == stored # NoItem /\ stored # StoredText("")

\* JSON.parse(stored): the value, or thrown
Parse(stored) ==
  IF stored.kind = "json"
  THEN [thrown |-> FALSE, shape |-> "array", items |-> stored.items]
  ELSE IF stored = StoredText("null")
  THEN [thrown |-> FALSE, shape |-> "null", items |-> <<>>]
  ELSE [thrown |-> TRUE]

NoUpdate == [thrown |-> TRUE]

NoCall == [op |-> "none"]

PrefLists == {"preferred_tags", "languages", "developers", "publishers"}

(***************************************************************************)
(* Construction and startup                                                *)
(***************************************************************************)
InitState(q, stored, raw) ==
  /\ activeTab = "explore"
  /\ games = <<>>
  /\ likedGames = <<>>
  /\ recommendations = NullRec
  /\ loading = TRUE
  /\ initialLoading = TRUE
  /\ stats = "null"
  /\ available = {}
  /\ searchQuery = ""
  /\ sortBy = "popularity"
  /\ gameType = "all"
  /\ currentPage = 1
  /\ totalPages = 1
  /\ totalGames = 0
  /\ selectedGame = NullGame
  /\ showGameDetails = FALSE
  /\ contentMethod = "cosine"
  /\ hybridMethod = "cosine"
  /\ initStep = "mount"
  /\ pending = [i \in Slots |-> NoRequest]
  /\ quota = q
  /\ alert = "none"
  /\ latestBrowse = NotDone
  /\ latestRec = [m \in RecModes |-> NotDone]
  /\ pageNumbers = <<>>
  /\ storage = stored
  /\ likedShape = "array"
  /\ likedUpdate = NoUpdate
  /\ bootStorage = stored
  /\ failure = "none"
  /\ rawItem = raw
  /\ gameData = NullGame
  /\ gameTypeAccurate = "none"
  /\ formatted = NullGame
  /\ preferences = [l \in PrefLists |-> <<>>]
  /\ prefCall = NoCall
  /\ titleGiven = <<>>
  /\ image = NoCall
  /\ imageBefore = NoCall
  /\ grid = NoCall
  /\ startupLog = <<>>

\* a first visit: nothing is stored
InitWith(q) == InitState(q, NoItem, NullGame)

Init == InitWith(MaxRequests)

\* the URL loadGames builds
GamesRequest(page, type, criterion, startup) ==
  [kind |-> "games",
   page |-> page,
   sorts |-> <<<<"popularity_score", -1>>>>
             \o (IF criterion # "popularity"
                 THEN <<<<sortMap(criterion), orderMap(criterion)>>>>
                 ELSE <<>>),
   game_type |-> IF type # "all" THEN type ELSE "none",
   startup |-> startup,
   latest |-> TRUE]

\* the effects of the first render, in the order they are declared. The load
\* effect reads the stored text, queues setLikedGames(JSON.parse(stored)) when
\* the text is truthy and parses, and calls loadInitialData, which runs to
\* its first await. The persist effect then runs with the likedGames of the
\* first render, the empty array.
Mount ==
  /\ initStep = "mount"
  /\ likedUpdate' = IF Truthy(storage) THEN Parse(storage) ELSE NoUpdate
  /\ storage' = Stringify(likedShape, likedGames)
  /\ initialLoading' = TRUE
  /\ initStep' = IF likedUpdate'.thrown THEN StartupFetches[1] ELSE "rerender"
  /\ alert' = "none"
  /\ UNCHANGED <<activeTab, games, likedGames, recommendations, loading, stats,
                 available, filterVars, currentPage, totalPages, totalGames,
                 detailVars, methodVars, pending, quota, ghostVars, pageNumbers,
                 likedShape, bootStorage, failure, normVars, prefVars, calcVars,
                 startupLog>>

\* the render the queued setLikedGames causes, and the persist effect that
\* follows it because likedGames changed
LikedGamesLoaded ==
  /\ initStep = "rerender"
  /\ likedShape' = likedUpdate.shape
  /\ likedGames' = likedUpdate.items
  /\ storage' = Stringify(likedShape', likedGames')
  /\ likedUpdate' = NoUpdate
  /\ initStep' = StartupFetches[1]
  /\ UNCHANGED <<activeTab, games, recommendations, loading, initialLoading, stats,
                 available, filterVars, currentPage, totalPages, totalGames,
                 detailVars, methodVars, pending, quota, alert, ghostVars,
                 pageNumbers, bootStorage, failure, normVars, prefVars, calcVars,
                 startupLog>>

\* the first render of the application itself: the navigation bar reads
\* likedGames.length, which throws when likedGames is null
FirstRender ==
  failure' = IF likedShape = "null" THEN "render" ELSE failure

StartupIndex == CHOOSE i \in DOMAIN StartupFetches : StartupFetches[i] = initStep

\* a startup fetch answers with a body that parses, whatever its status (the
\* status is not looked at): what the body carries is stored, an option list
\* the body lacks is stored empty, and the next fetch is issued; after the
\* publishers, loadGames() is called
StartupAnswered(outcome) ==
  /\ initStep \in Range(StartupFetches)
  /\ IF initStep = "stats"
     THEN /\ stats' = IF outcome = "ok" THEN "loaded" ELSE "error"
          /\ UNCHANGED available
     ELSE /\ available' = available \cup {initStep}
          /\ UNCHANGED stats
  /\ IF StartupIndex < Len(StartupFetches)
     THEN /\ initStep' = StartupFetches[StartupIndex + 1]
          /\ UNCHANGED <<loading, pending>>
     ELSE /\ initStep' = "games"
          /\ loading' = TRUE
          /\ pending' = Put(GamesRequest(1, gameType, sortBy, TRUE))
  /\ startupLog' = Append(startupLog, [fetch |-> initStep, outcome |-> outcome])
  /\ latestBrowse' = NotDone
  /\ alert' = "none"
  /\ UNCHANGED <<activeTab, games, likedGames, recommendations, initialLoading,
                 filterVars, currentPage, totalPages, totalGames, detailVars,
                 methodVars, quota, latestRec, pageNumbers,
                 storageVars, failure, normVars, prefVars, calcVars>>

\* the service answers the startup fetch with a success status
StartupFetchParsed == StartupAnswered("ok")

\* the service answers the startup fetch with a non-success status and a
\* JSON error body
StartupFetchHttpError == StartupAnswered("http_error")

\* a startup fetch rejects or its body does not parse: catch, then finally
StartupFetchThrew ==
  /\ initStep \in Range(StartupFetches)
  /\ initStep' = "failed"
  /\ initialLoading' = FALSE
  /\ FirstRender
  /\ loading' = FALSE
  /\ startupLog' = Append(startupLog, [fetch |-> initStep, outcome |-> "throw"])
  /\ alert' = "none"
  /\ UNCHANGED <<activeTab, games, likedGames, recommendations, stats, available,
                 filterVars, currentPage, totalPages, totalGames, detailVars,
                 methodVars, pending, quota, ghostVars, pageNumbers,
                 storageVars, normVars, prefVars, calcVars>>

(***************************************************************************)
(* Browse: loadGames, handleSearch, the type and sort controls, pagination *)
(***************************************************************************)
\* loadGames(page, type) up to `await fetch(url)`; sortBy is the value of the
\* render whose handler is running
StartLoadGames(page, type) ==
  /\ CanIssue
  /\ loading' = TRUE
  /\ pending' = Put(GamesRequest(page, type, sortBy, FALSE))
  /\ quota' = quota - 1
  /\ latestBrowse' = NotDone

\* data.total_pages || 1
TotalPagesOfZero(data) == OrNum(data, "total_pages", 0)

TotalPagesOf(data) == OrNum(data, "total_pages", 1)

\* the finally block of loadInitialData, reached when its `await loadGames()`
\* returns
FinishStartup(req) ==
  IF req.startup
  THEN /\ initialLoading' = FALSE
       /\ initStep' = "done"
       /\ FirstRender
  ELSE UNCHANGED <<initialLoading, initStep, failure>>

\* loadGames after the await, the body parsed (the status is not looked at)
GamesParsed(i, outcome) ==
  /\ pending[i].kind = "games"
  /\ outcome \in {"ok", "http_error"}
  /\ LET req == pending[i]
     IN \E data \in {IF outcome = "ok" THEN ServerGames(req) ELSE ErrorBody} :
        /\ games' = OrArr(data, "games", <<>>)
        /\ totalGames' = OrNum(data, "total", 0)
        /\ totalPages' = TotalPagesOf(data)
        /\ currentPage' = req.page
        /\ latestBrowse' = IF req.latest /\ outcome = "ok"
                           THEN [done |-> TRUE,
                                 games |-> OrArr(data, "games", <<>>),
                                 currentPage |-> req.page,
                                 totalPages |-> TotalPagesOf(data)]
                           ELSE latestBrowse
        /\ FinishStartup(req)
  /\ loading' = FALSE
  /\ pending' = Take(i)
  /\ alert' = "none"
  /\ UNCHANGED <<activeTab, likedGames, recommendations, stats, available,
                 filterVars, detailVars, methodVars, quota, latestRec, pageNumbers,
                 storageVars, normVars, prefVars, calcVars,
                 startupLog>>

\* loadGames without its finally block
GamesThrewNoFinally(i) ==
  /\ pending[i].kind = "games"
  /\ games' = <<>>
  /\ FinishStartup(pending[i])
  /\ pending' = Take(i)
  /\ alert' = "none"
  /\ UNCHANGED <<activeTab, likedGames, recommendations, loading, stats, available,
                 filterVars, currentPage, totalPages, totalGames, detailVars,
                 methodVars, quota, ghostVars, pageNumbers,
                 storageVars, normVars, prefVars, calcVars,
                 startupLog>>

\* loadGames after the await, fetch rejected or the body did not parse
GamesThrew(i) ==
  /\ pending[i].kind = "games"
  /\ games' = <<>>
  /\ FinishStartup(pending[i])
  /\ loading' = FALSE
  /\ pending' = Take(i)
  /\ alert' = "none"
  /\ UNCHANGED <<activeTab, likedGames, recommendations, stats, available,
                 filterVars, currentPage, totalPages, totalGames, detailVars,
                 methodVars, quota, ghostVars, pageNumbers,
                 storageVars, normVars, prefVars, calcVars,
                 startupLog>>

\* String.prototype.trim over the texts of the model
Trim(q) ==
  IF q = " " THEN ""
  ELSE IF q \in {" rpg", "rpg ", " rpg "} THEN "rpg"
  ELSE q

\* the form's onSubmit
handleSearch ==
  /\ Interactive
  /\ activeTab = "explore"
  /\ IF Trim(searchQuery) = ""
     THEN StartLoadGames(1, gameType)
     ELSE /\ CanIssue
          /\ loading' = TRUE
          /\ pending' = Put([kind |-> "search",
                             q |-> searchQuery,
                             game_type |-> IF gameType # "all" THEN gameType ELSE "none",
                             latest |-> TRUE])
          /\ quota' = quota - 1
          /\ latestBrowse' = NotDone
  /\ alert' = "none"
  /\ UNCHANGED <<activeTab, likedGames, recommendations, startupVars, browseVars,
                 filterVars, detailVars, methodVars, latestRec, pageNumbers,
                 storageVars, failure, normVars, prefVars, calcVars>>

SearchParsed(i, outcome) ==
  /\ pending[i].kind = "search"
  /\ outcome \in {"ok", "http_error"}
  /\ LET req == pending[i]
         data == IF outcome = "ok" THEN ServerSearch(req) ELSE ErrorBody
     IN /\ games' = OrArr(data, "games", <<>>)
        /\ totalGames' = OrNum(data, "count", 0)
        /\ totalPages' = 1
        /\ currentPage' = 1
        /\ latestBrowse' = IF req.latest /\ outcome = "ok"
                           THEN [done |-> TRUE,
                                 games |-> OrArr(data, "games", <<>>),
                                 currentPage |-> 1,
                                 totalPages |-> 1]
                           ELSE latestBrowse
  /\ loading' = FALSE
  /\ pending' = Take(i)
  /\ alert' = "none"
  /\ UNCHANGED <<activeTab, likedGames, recommendations, startupVars, filterVars,
                 detailVars, methodVars, quota, latestRec, pageNumbers,
                 storageVars, failure, normVars, prefVars, calcVars>>

SearchThrew(i) ==
  /\ pending[i].kind = "search"
  /\ games' = <<>>
  /\ loading' = FALSE
  /\ pending' = Take(i)
  /\ alert' = "none"
  /\ UNCHANGED <<activeTab, likedGames, recommendations, startupVars, filterVars,
                 currentPage, totalPages, totalGames, detailVars, methodVars,
                 quota, ghostVars, pageNumbers,
                 storageVars, failure, normVars, prefVars, calcVars>>

\* the search box's onChange
SetSearchQuery(q) ==
  /\ Interactive
  /\ activeTab = "explore"
  /\ q # searchQuery
  /\ searchQuery' = q
  /\ alert' = "none"
  /\ UNCHANGED <<activeTab, games, likedGames, recommendations, loading, startupVars,
                 sortBy, gameType, currentPage, totalPages, totalGames, detailVars,
                 methodVars, pending, quota, ghostVars, pageNumbers,
                 storageVars, failure, normVars, prefVars, calcVars>>

handleGameTypeChange(type) ==
  /\ Interactive
  /\ activeTab = "explore"
  /\ gameType' = type
  /\ currentPage' = 1
  /\ StartLoadGames(1, type)
  /\ alert' = "none"
  /\ UNCHANGED <<activeTab, games, likedGames, recommendations, startupVars,
                 searchQuery, sortBy, totalPages, totalGames, detailVars,
                 methodVars, latestRec, pageNumbers,
                 storageVars, failure, normVars, prefVars, calcVars>>

\* the select's onChange: setSortBy only shows in the next render, so the
\* loadGames of this handler still reads the old sortBy
handleSortChange(newSortBy) ==
  /\ Interactive
  /\ activeTab = "explore"
  /\ newSortBy # sortBy
  /\ sortBy' = newSortBy
  /\ currentPage' = 1
  /\ StartLoadGames(1, gameType)
  /\ alert' = "none"
  /\ UNCHANGED <<activeTab, games, likedGames, recommendations, startupVars,
                 searchQuery, gameType, totalPages, totalGames, detailVars,
                 methodVars, latestRec, pageNumbers,
                 storageVars, failure, normVars, prefVars, calcVars>>

\* the explore tab shows the grid and the pagination bar only while not loading
GridShown == Interactive /\ activeTab = "explore" /\ loading = FALSE

\* a click on an enabled button of the pagination bar
PageNavigation(n) ==
  /\ GridShown
  /\ n \in PageTargets(currentPage, totalPages)
  /\ StartLoadGames(n, gameType)
  /\ alert' = "none"
  /\ UNCHANGED <<activeTab, likedGames, recommendations, startupVars, browseVars,
                 filterVars, detailVars, methodVars, latestRec, pageNumbers,
                 storageVars, failure, normVars, prefVars, calcVars>>

\* what the explore grid shows: handleSort(games).map(renderGameCard)
DisplayedGames == handleSort(games, sortBy)

(***************************************************************************)
(* Tabs, likes, game details                                               *)
(***************************************************************************)
SwitchTab(t) ==
  /\ Interactive
  /\ t # activeTab
  /\ activeTab' = t
  /\ alert' = "none"
  /\ UNCHANGED <<games, likedGames, recommendations, loading, startupVars, filterVars,
                 currentPage, totalPages, totalGames, detailVars, methodVars,
                 pending, quota, ghostVars, pageNumbers,
                 storageVars, failure, normVars, prefVars, calcVars>>

\* the games of every bucket of a stored recommendation result
RecGames(rec) ==
  IF rec.method = "content"
  THEN Range(rec.data.results.highly_similar.games)
       \cup Range(rec.data.results.moderately_similar.games)
       \cup Range(rec.data.results.somewhat_similar.games)
  ELSE IF rec.method = "constraint"
  THEN Range(rec.data.results.perfect_matches.games)
       \cup Range(rec.data.results.good_matches.games)
       \cup Range(rec.data.results.partial_matches.games)
  ELSE IF rec.method = "hybrid"
  THEN Range(rec.data.recommendations)
  ELSE {}

\* a recommendation tab that shows whatever result is stored
RecShownAnyMode ==
  /\ Interactive
  /\ activeTab \in RecModes
  /\ ~loading
  /\ recommendations # NullRec

\* the active recommendation tab shows the stored result:
\* loading ? ... : recommendations && recommendations.method === '<tab>' ? ...
RecShown ==
  /\ Interactive
  /\ activeTab \in RecModes
  /\ ~loading
  /\ recommendations # NullRec
  /\ recommendations.method = activeTab

\* the games that have a card (or the details modal) on screen
VisibleCards ==
  (IF ~Interactive THEN {}
   ELSE IF activeTab = "explore" THEN (IF loading THEN {} ELSE Range(games))
   ELSE IF activeTab = "liked" THEN Range(likedGames)
   ELSE IF RecShown THEN RecGames(recommendations)
   ELSE {})
  \cup (IF Interactive /\ showGameDetails /\ selectedGame # NullGame
        THEN {selectedGame} ELSE {})

isGameLiked(game) == \E i \in DOMAIN likedGames : likedGames[i].title = game.title

\* the liked set is kept within MaxLiked games, or within the number of games
\* found stored when that is larger
LikeRoom ==
  IF bootStorage.kind = "json" /\ Len(bootStorage.items) > MaxLiked
  THEN Len(bootStorage.items)
  ELSE MaxLiked

\* toggleLike that compares the items themselves, not their titles
toggleLikeByItem(game) ==
  /\ game \in VisibleCards
  /\ IF game \in Range(likedGames)
     THEN likedGames' = SelectSeq(likedGames, LAMBDA g : g # game)
     ELSE /\ Len(likedGames) < LikeRoom
          /\ likedGames' = Append(likedGames, game)
  /\ storage' = Stringify(likedShape, likedGames')
  /\ alert' = "none"
  /\ UNCHANGED <<activeTab, games, recommendations, loading, startupVars, filterVars,
                 currentPage, totalPages, totalGames, detailVars, methodVars,
                 pending, quota, ghostVars, pageNumbers,
                 likedShape, likedUpdate, bootStorage, failure, normVars, prefVars, calcVars>>

\* toggleLike without the persist effect
toggleLikeUnsaved(game) ==
  /\ game \in VisibleCards
  /\ IF isGameLiked(game)
     THEN likedGames' = SelectSeq(likedGames, LAMBDA g : g.title # game.title)
     ELSE /\ Len(likedGames) < LikeRoom
          /\ likedGames' = Append(likedGames, game)
  /\ alert' = "none"
  /\ UNCHANGED <<activeTab, games, recommendations, loading, startupVars, filterVars,
                 currentPage, totalPages, totalGames, detailVars, methodVars,
                 pending, quota, ghostVars, pageNumbers,
                 storageVars, failure, normVars, prefVars, calcVars>>

\* toggleLike, the render it causes and the persist effect that follows the
\* render because likedGames changed
toggleLike(game) ==
  /\ game \in VisibleCards
  /\ IF isGameLiked(game)
     THEN likedGames' = SelectSeq(likedGames, LAMBDA g : g.title # game.title)
     ELSE /\ Len(likedGames) < LikeRoom
          /\ likedGames' = Append(likedGames, game)
  /\ storage' = Stringify(likedShape, likedGames')
  /\ alert' = "none"
  /\ UNCHANGED <<activeTab, games, recommendations, loading, startupVars, filterVars,
                 currentPage, totalPages, totalGames, detailVars, methodVars,
                 pending, quota, ghostVars, pageNumbers,
                 likedShape, likedUpdate, bootStorage, failure, normVars, prefVars, calcVars>>

\* viewGameDetails up to its await
viewGameDetails(game) ==
  /\ game \in VisibleCards
  /\ CanIssue
  /\ loading' = TRUE
  /\ pending' = Put([kind |-> "details", game |-> game, latest |-> TRUE])
  /\ quota' = quota - 1
  /\ alert' = "none"
  /\ UNCHANGED <<activeTab, games, likedGames, recommendations, startupVars, filterVars,
                 currentPage, totalPages, totalGames, detailVars, methodVars,
                 ghostVars, pageNumbers,
                 storageVars, failure, normVars, prefVars, calcVars>>

\* GET /games/{title}: the catalog entry of that title
ServerGame(title) == CHOOSE g \in CatalogGames : g.title = title

\* viewGameDetails after the await: the full entry when the answer is OK, the
\* card's own data otherwise; the modal opens either way
DetailsAnswered(i, outcome) ==
  /\ pending[i].kind = "details"
  /\ outcome \in Outcomes
  /\ selectedGame' = IF outcome = "ok"
                     THEN ServerGame(pending[i].game.title)
                     ELSE pending[i].game
  /\ showGameDetails' = TRUE
  /\ loading' = FALSE
  /\ pending' = Take(i)
  /\ alert' = "none"
  /\ UNCHANGED <<activeTab, games, likedGames, recommendations, startupVars, filterVars,
                 currentPage, totalPages, totalGames, methodVars, quota, ghostVars,
                 pageNumbers,
                 storageVars, failure, normVars, prefVars, calcVars>>

closeGameDetails ==
  /\ Interactive
  /\ showGameDetails
  /\ showGameDetails' = FALSE
  /\ selectedGame' = NullGame
  /\ alert' = "none"
  /\ UNCHANGED <<activeTab, games, likedGames, recommendations, loading, startupVars,
                 filterVars, currentPage, totalPages, totalGames, methodVars,
                 pending, quota, ghostVars, pageNumbers,
                 storageVars, failure, normVars, prefVars, calcVars>>

(***************************************************************************)
(* Recommendations                                                         *)
(***************************************************************************)
SetContentMethod(m) ==
  /\ Interactive
  /\ activeTab = "content"
  /\ m # contentMethod
  /\ contentMethod' = m
  /\ alert' = "none"
  /\ UNCHANGED <<activeTab, games, likedGames, recommendations, loading, startupVars,
                 filterVars, currentPage, totalPages, totalGames, detailVars,
                 hybridMethod, pending, quota, ghostVars, pageNumbers,
                 storageVars, failure, normVars, prefVars, calcVars>>

SetHybridMethod(m) ==
  /\ Interactive
  /\ activeTab = "hybrid"
  /\ m # hybridMethod
  /\ hybridMethod' = m
  /\ alert' = "none"
  /\ UNCHANGED <<activeTab, games, likedGames, recommendations, loading, startupVars,
                 filterVars, currentPage, totalPages, totalGames, detailVars,
                 contentMethod, pending, quota, ghostVars, pageNumbers,
                 storageVars, failure, normVars, prefVars, calcVars>>

\* likedGames.length === 0, the guard of the content and hybrid fetches
NoLikedGamesNever == FALSE

NoLikedGames == Len(likedGames) = 0

\* a recommendation fetch up to its await
StartRecFetch(req) ==
  /\ CanIssue
  /\ loading' = TRUE
  /\ pending' = Put(req)
  /\ quota' = quota - 1
  /\ latestRec' = [latestRec EXCEPT ![req.kind] = NotDone]

getContentRecommendations ==
  /\ IF NoLikedGames
     THEN /\ alert' = "content_precondition"
          /\ UNCHANGED <<loading, pending, quota, latestRec>>
     ELSE /\ StartRecFetch([kind |-> "content", cases |-> Titles(likedGames),
                            method |-> contentMethod, limit |-> 24, latest |-> TRUE])
          /\ alert' = "none"
  /\ UNCHANGED <<activeTab, games, likedGames, recommendations, startupVars, filterVars,
                 currentPage, totalPages, totalGames, detailVars, methodVars,
                 latestBrowse, pageNumbers,
                 storageVars, failure, normVars, prefVars, calcVars>>

getConstraintRecommendations ==
  /\ StartRecFetch([kind |-> "constraint", limit |-> 24, latest |-> TRUE])
  /\ alert' = "none"
  /\ UNCHANGED <<activeTab, games, likedGames, recommendations, startupVars, filterVars,
                 currentPage, totalPages, totalGames, detailVars, methodVars,
                 latestBrowse, pageNumbers,
                 storageVars, failure, normVars, prefVars, calcVars>>

getHybridRecommendations ==
  /\ IF NoLikedGames
     THEN /\ alert' = "hybrid_precondition"
          /\ UNCHANGED <<loading, pending, quota, latestRec>>
     ELSE /\ StartRecFetch([kind |-> "hybrid", cases |-> Titles(likedGames),
                            method |-> hybridMethod, limit |-> 24, latest |-> TRUE])
          /\ alert' = "none"
  /\ UNCHANGED <<activeTab, games, likedGames, recommendations, startupVars, filterVars,
                 currentPage, totalPages, totalGames, detailVars, methodVars,
                 latestBrowse, pageNumbers,
                 storageVars, failure, normVars, prefVars, calcVars>>

\* the value a successful content fetch stores
\* the content result with only the buckets the response carries
ContentResultNoDefaults(data, method) ==
  [method |-> "content",
   data |-> [results |->
     [b \in (IF Has(data, "results") THEN DOMAIN data.results ELSE {}) |->
        [games |-> BucketGames(data, b)]]],
   similarity |-> method]

ContentResult(data, method) ==
  [method |-> "content",
   data |-> [results |->
     [highly_similar |-> [games |-> BucketGames(data, "highly_similar")],
      moderately_similar |-> [games |-> BucketGames(data, "moderately_similar")],
      somewhat_similar |-> [games |-> BucketGames(data, "somewhat_similar")]]],
   similarity |-> method]

ConstraintResult(data) ==
  [method |-> "constraint",
   data |-> [results |->
     [perfect_matches |-> [games |-> BucketGames(data, "perfect_matches")],
      good_matches |-> [games |-> BucketGames(data, "good_matches")],
      partial_matches |-> [games |-> BucketGames(data, "partial_matches")]]],
   similarity |-> "constraint"]

HybridResult(data, method) ==
  [method |-> "hybrid",
   data |-> [recommendations |-> MapFormatHybrid(OrArr(data, "recommendations", <<>>))],
   similarity |-> method]

\* a recommendation fetch after its await, response.ok and the body parsed
RecStored(i, result) ==
  /\ recommendations' = result
  /\ latestRec' = IF pending[i].latest
                  THEN [latestRec EXCEPT ![pending[i].kind] = [done |-> TRUE, rec |-> result]]
                  ELSE latestRec
  /\ loading' = FALSE
  /\ pending' = Take(i)
  /\ alert' = "none"
  /\ UNCHANGED <<activeTab, games, likedGames, startupVars, filterVars, currentPage,
                 totalPages, totalGames, detailVars, methodVars, quota, latestBrowse,
                 pageNumbers,
                 storageVars, failure, normVars, prefVars, calcVars>>

ContentAnswered(i, data) ==
  /\ pending[i].kind = "content"
  /\ data \in ContentBodies
  /\ RecStored(i, ContentResult(data, pending[i].method))

ConstraintAnswered(i, data) ==
  /\ pending[i].kind = "constraint"
  /\ data \in ConstraintBodies
  /\ RecStored(i, ConstraintResult(data))

HybridAnswered(i, data) ==
  /\ pending[i].kind = "hybrid"
  /\ data \in HybridBodies
  /\ RecStored(i, HybridResult(data, pending[i].method))

\* the catch and finally blocks of the three recommendation fetches: the
\* fetch rejected, the status was not OK, or the body did not parse
RecFetchFailedClears(i) ==
  /\ pending[i].kind \in RecModes
  /\ recommendations' = NullRec
  /\ alert' = pending[i].kind \o "_error"
  /\ loading' = FALSE
  /\ pending' = Take(i)
  /\ UNCHANGED <<activeTab, games, likedGames, startupVars, filterVars,
                 currentPage, totalPages, totalGames, detailVars, methodVars, quota,
                 ghostVars, pageNumbers,
                 storageVars, failure, normVars, prefVars, calcVars>>

RecFetchFailed(i) ==
  /\ pending[i].kind \in RecModes
  /\ alert' = pending[i].kind \o "_error"
  /\ loading' = FALSE
  /\ pending' = Take(i)
  /\ UNCHANGED <<activeTab, games, likedGames, recommendations, startupVars, filterVars,
                 currentPage, totalPages, totalGames, detailVars, methodVars, quota,
                 ghostVars, pageNumbers,
                 storageVars, failure, normVars, prefVars, calcVars>>

\* the button of a recommendation tab; the content and hybrid buttons are
\* disabled while likedGames is empty
ClickGetContent ==
  /\ Interactive
  /\ activeTab = "content"
  /\ Len(likedGames) # 0
  /\ getContentRecommendations

ClickGetConstraint ==
  /\ Interactive
  /\ activeTab = "constraint"
  /\ getConstraintRecommendations

ClickGetHybrid ==
  /\ Interactive
  /\ activeTab = "hybrid"
  /\ Len(likedGames) # 0
  /\ getHybridRecommendations

(***************************************************************************)
(* Preferences of the constraint tab                                       *)
(***************************************************************************)
\* what a caller may hand to the handlers
PrefInputs == {"", " ", "rpg", " rpg ", "fps"}

PrefCalled(op, list, arg) ==
  prefCall' = [op |-> op, list |-> list, arg |-> arg, before |-> preferences]

\* addItem that looks for the text as it was typed, not for the trimmed text
addItemUntrimmedLookup(list, item) ==
  /\ Interactive
  /\ IF Trim(item) # "" /\ item \notin Range(preferences[list])
     THEN preferences' = [preferences EXCEPT ![list] = Append(@, Trim(item))]
     ELSE UNCHANGED preferences
  /\ PrefCalled("add", list, item)
  /\ UNCHANGED <<activeTab, games, likedGames, recommendations, loading, startupVars,
                 filterVars, browseVars, detailVars, methodVars, pending, quota,
                 alert, ghostVars, pageNumbers, storageVars, failure, normVars, calcVars>>

\* addItem(list, item): item && item.trim() && !preferences[list].includes(item.trim())
addItem(list, item) ==
  /\ Interactive
  /\ IF item # "" /\ Trim(item) # "" /\ Trim(item) \notin Range(preferences[list])
     THEN preferences' = [preferences EXCEPT ![list] = Append(@, Trim(item))]
     ELSE UNCHANGED preferences
  /\ PrefCalled("add", list, item)
  /\ UNCHANGED <<activeTab, games, likedGames, recommendations, loading, startupVars,
                 filterVars, browseVars, detailVars, methodVars, pending, quota,
                 alert, ghostVars, pageNumbers, storageVars, failure, normVars, calcVars>>

\* removeItem(list, item)
removeItem(list, item) ==
  /\ Interactive
  /\ preferences' = [preferences EXCEPT ![list] = SelectSeq(@, LAMBDA i : i # item)]
  /\ PrefCalled("remove", list, item)
  /\ UNCHANGED <<activeTab, games, likedGames, recommendations, loading, startupVars,
                 filterVars, browseVars, detailVars, methodVars, pending, quota,
                 alert, ghostVars, pageNumbers, storageVars, failure, normVars, calcVars>>

\* addTag that appends without looking for the tag in the list
addTagNoLookup(tag) ==
  /\ Interactive
  /\ IF tag # "" /\ Trim(tag) # ""
     THEN preferences' = [preferences EXCEPT !["preferred_tags"] = Append(@, Trim(tag))]
     ELSE UNCHANGED preferences
  /\ PrefCalled("add", "preferred_tags", tag)
  /\ UNCHANGED <<activeTab, games, likedGames, recommendations, loading, startupVars,
                 filterVars, browseVars, detailVars, methodVars, pending, quota,
                 alert, ghostVars, pageNumbers, storageVars, failure, normVars, calcVars>>

\* addTag(tag): tag && tag.trim() && !preferences.preferred_tags.includes(tag.trim())
addTag(tag) ==
  /\ Interactive
  /\ IF tag # "" /\ Trim(tag) # "" /\ Trim(tag) \notin Range(preferences["preferred_tags"])
     THEN preferences' = [preferences EXCEPT !["preferred_tags"] = Append(@, Trim(tag))]
     ELSE UNCHANGED preferences
  /\ PrefCalled("add", "preferred_tags", tag)
  /\ UNCHANGED <<activeTab, games, likedGames, recommendations, loading, startupVars,
                 filterVars, browseVars, detailVars, methodVars, pending, quota,
                 alert, ghostVars, pageNumbers, storageVars, failure, normVars, calcVars>>

\* removeTag(tag)
removeTag(tag) ==
  /\ Interactive
  /\ preferences' = [preferences EXCEPT !["preferred_tags"] = SelectSeq(@, LAMBDA t : t # tag)]
  /\ PrefCalled("remove", "preferred_tags", tag)
  /\ UNCHANGED <<activeTab, games, likedGames, recommendations, loading, startupVars,
                 filterVars, browseVars, detailVars, methodVars, pending, quota,
                 alert, ghostVars, pageNumbers, storageVars, failure, normVars, calcVars>>

(***************************************************************************)
(* Specifications                                                          *)
(***************************************************************************)
\* startup on a first visit; with nothing stored the load effect queues no
\* update
Startup ==
  \/ Mount
  \/ StartupFetchParsed
  \/ StartupFetchThrew

GamesAnswered ==
  \/ \E i \in Slots, o \in {"ok", "http_error"} : GamesParsed(i, o)
  \/ \E i \in Slots : GamesThrew(i)

\* the user stays on the Explore tab
NextBrowse ==
  \/ Startup
  \/ GamesAnswered
  \/ handleSearch
  \/ \E i \in Slots, o \in {"ok", "http_error"} : SearchParsed(i, o)
  \/ \E i \in Slots : SearchThrew(i)
  \/ \E q \in Queries : SetSearchQuery(q)
  \/ \E t \in GameTypes : handleGameTypeChange(t)
  \/ \E c \in SortCriteria : handleSortChange(c)
  \/ \E n \in 0..(totalPages + currentPage + 1) : PageNavigation(n)
  \/ \E g \in VisibleCards : viewGameDetails(g)
  \/ \E i \in Slots, o \in Outcomes : DetailsAnswered(i, o)
  \/ closeGameDetails

\* the user likes games and asks for recommendations
NextRec ==
  \/ Startup
  \/ GamesAnswered
  \/ \E t \in Tabs : SwitchTab(t)
  \/ \E g \in VisibleCards : toggleLike(g)
  \/ \E m \in Methods : SetContentMethod(m)
  \/ \E m \in Methods : SetHybridMethod(m)
  \/ ClickGetContent
  \/ ClickGetConstraint
  \/ ClickGetHybrid
  \/ \E i \in Slots, d \in ContentBodies : ContentAnswered(i, d)
  \/ \E i \in Slots, d \in ConstraintBodies : ConstraintAnswered(i, d)
  \/ \E i \in Slots, d \in HybridBodies : HybridAnswered(i, d)
  \/ \E i \in Slots : RecFetchFailed(i)

\* the user only filters by type and pages
NextPaging ==
  \/ Startup
  \/ GamesAnswered
  \/ \E t \in GameTypes : handleGameTypeChange(t)
  \/ \E n \in 0..(totalPages + currentPage + 1) : PageNavigation(n)

\* the same user, and a service that answers every listing request with the
\* page asked for and the page count of the filter asked for
NextPagingTruthful ==
  \/ Startup
  \/ \E i \in Slots : GamesParsed(i, "ok")
  \/ \E t \in GameTypes : handleGameTypeChange(t)
  \/ \E n \in 0..(totalPages + currentPage + 1) : PageNavigation(n)

\* the content and hybrid handlers called whatever the state of their button
CallGetContent == Interactive /\ getContentRecommendations

CallGetHybrid == Interactive /\ getHybridRecommendations

NextCalls ==
  \/ NextRec
  \/ CallGetContent
  \/ CallGetHybrid

Next ==
  \/ NextBrowse
  \/ NextRec

Spec == Init /\ [][Next]_vars

SpecBrowse == Init /\ [][NextBrowse]_vars

SpecRec == InitWith(MaxRecRequests) /\ [][NextRec]_vars

SpecCalls == InitWith(MaxRecRequests) /\ [][NextCalls]_vars

SpecPaging == InitWith(MaxPagingRequests) /\ [][NextPaging]_vars

SpecPagingTruthful == InitWith(MaxPagingRequests) /\ [][NextPagingTruthful]_vars

\* the page-window computation on its own: every currentPage <= totalPages
\* up to MaxWindowPages, then one render of the pagination bar
InitPages == InitWith(0)

PagesDrawn(cur, total) ==
  /\ initStep = "mount"
  /\ cur <= total
  /\ currentPage' = cur
  /\ totalPages' = total
  /\ initStep' = "done"
  /\ initialLoading' = FALSE
  /\ loading' = FALSE
  /\ UNCHANGED <<activeTab, games, likedGames, recommendations, stats, available,
                 filterVars, totalGames, detailVars, methodVars, pending, quota,
                 alert, ghostVars, pageNumbers,
                 storageVars, failure, normVars, prefVars, calcVars,
                 startupLog>>

PaginationRendered ==
  /\ initStep = "done"
  /\ pageNumbers = <<>>
  /\ pageNumbers' = renderPagination(currentPage, totalPages)
  /\ UNCHANGED <<activeTab, games, likedGames, recommendations, loading, startupVars,
                 filterVars, browseVars, detailVars, methodVars, pending, quota,
                 alert, ghostVars,
                 storageVars, failure, normVars, prefVars, calcVars>>

NextPages ==
  \/ \E total \in 2..MaxWindowPages, cur \in 1..MaxWindowPages : PagesDrawn(cur, total)
  \/ PaginationRendered

SpecPages == InitPages /\ [][NextPages]_vars

\* the four preference handlers called with any text, in any order
NextPrefs ==
  \/ Startup
  \/ GamesAnswered
  \/ \E t \in PrefInputs : addTag(t)
  \/ \E t \in PrefInputs : removeTag(t)
  \/ \E l \in PrefLists \ {"preferred_tags"}, t \in PrefInputs : addItem(l, t)
  \/ \E l \in PrefLists \ {"preferred_tags"}, t \in PrefInputs : removeItem(l, t)

SpecPrefs == InitWith(0) /\ [][NextPrefs]_vars

\* Normalization on its own: an item as a service may deliver it, then the
\* card normalizer and the hybrid formatter applied to it.
Partial(fields, values) == UNION {[S -> values] : S \in SUBSET fields}

\* an upstream original price, when given and not zero, is not below the
\* upstream current prices
PriceParts ==
  {r \in Partial({"original_price", "discounted_price", "price"}, {0, 5, 10}) :
     (Has(r, "original_price") /\ r["original_price"] # 0)
       => \A f \in DOMAIN r : r[f] <= r["original_price"]}

RawItems ==
  {p @@ d @@ l :
     p \in PriceParts,
     d \in Partial({"discount_percentage", "discount"}, {0, 50}),
     l \in Partial({"game_type"}, {"free", "paid"})}
  \cup {a @@ b @@ c :
     a \in Partial({"overall_sentiment_score", "sentiment"}, {0, 8}),
     b \in Partial({"score", "similarity", "hybrid_score"}, {0, 7, 9}),
     c \in Partial({"all_reviews_count", "reviews"}, {0, 100})}
  \cup {t @@ ls :
     t \in Partial({"title", "developer", "publisher", "link"}, {"", "x"}),
     ls \in Partial({"tags", "categories", "features", "languages"}, {<<>>, <<"rpg">>})}

InitNormalize == \E raw \in RawItems : InitState(0, NoItem, raw)

\* renderGameCard(game, index): gameTypeAccurate and gameData
renderGameCard ==
  /\ rawItem # NullGame
  /\ gameData = NullGame
  /\ gameTypeAccurate' = getAccurateGameType(rawItem)
  /\ gameData' = GameDataOf(rawItem)
  /\ UNCHANGED <<activeTab, games, likedGames, recommendations, loading, startupVars,
                 filterVars, browseVars, detailVars, methodVars, pending, quota,
                 alert, ghostVars, pageNumbers, storageVars, failure, rawItem,
                 formatted, prefVars, calcVars>>

\* the formatter of getHybridRecommendations applied to one recommendation
FormatRecommendation ==
  /\ rawItem # NullGame
  /\ formatted = NullGame
  /\ formatted' = FormatHybrid(rawItem)
  /\ UNCHANGED <<activeTab, games, likedGames, recommendations, loading, startupVars,
                 filterVars, browseVars, detailVars, methodVars, pending, quota,
                 alert, ghostVars, pageNumbers, storageVars, failure, rawItem,
                 gameData, gameTypeAccurate, prefVars, calcVars>>

NextNormalize ==
  \/ renderGameCard
  \/ FormatRecommendation

SpecNormalize == InitNormalize /\ [][NextNormalize]_vars

\* the liked games across sessions: the page is opened on any stored value,
\* starts up, and the user likes and unlikes games on the Explore and Liked
\* tabs. StaleEcho is a game as it was liked in an earlier session, at the
\* price it had then.
StaleEcho == [Catalog[1] EXCEPT !.discounted_price = 25]

StoredGames == CatalogGames \cup {StaleEcho}

LikedLists ==
  {l \in UNION {[1..n -> StoredGames] : n \in 0..MaxStored} :
     \A i, j \in DOMAIN l : l[i].title = l[j].title => i = j}

StoredValues ==
  {NoItem, StoredText(""), StoredText("garbage"), StoredText("null")}
  \cup {Stringify("array", l) : l \in LikedLists}

InitStorage == \E stored \in StoredValues : InitState(0, stored, NullGame)

NextStorage ==
  \/ Startup
  \/ LikedGamesLoaded
  \/ GamesAnswered
  \/ \E t \in {"explore", "liked"} : SwitchTab(t)
  \/ \E g \in VisibleCards : toggleLike(g)

SpecStorage == InitStorage /\ [][NextStorage]_vars

\* startup on its own: every startup fetch is answered with a success
\* status, with a non-success status and a JSON error body, or not at all
NextStartup ==
  \/ Mount
  \/ StartupFetchParsed
  \/ StartupFetchHttpError
  \/ StartupFetchThrew
  \/ GamesAnswered

SpecStartup == InitWith(0) /\ [][NextStartup]_vars

\* the client-side sort on its own: a page whose items lack any of the fields
\* the comparators read is on display under any criterion, and the Explore
\* grid is rendered once
Without(g, fields) == [f \in DOMAIN g \ fields |-> g[f]]

SortItems ==
  {Without(g, S) :
     g \in {Catalog[1], Catalog[2]},
     S \in SUBSET {"title", "discounted_price", "overall_sentiment_score"}}

SortPages == UNION {[1..n -> SortItems] : n \in 0..PageLimit}

PageDelivered(page, criterion) ==
  /\ initStep = "mount"
  /\ games' = page
  /\ sortBy' = criterion
  /\ initStep' = "done"
  /\ initialLoading' = FALSE
  /\ loading' = FALSE
  /\ UNCHANGED <<activeTab, likedGames, recommendations, stats, available,
                 searchQuery, gameType, currentPage, totalPages, totalGames,
                 detailVars, methodVars, pending, quota, alert, ghostVars,
                 pageNumbers, storageVars, failure, normVars, prefVars, calcVars,
                 startupLog>>

\* handleSort(games).map(renderGameCard) in the render of the Explore tab; an
\* error thrown while rendering takes the application off the screen
GridRendered ==
  /\ Interactive
  /\ initStep = "done"
  /\ activeTab = "explore"
  /\ grid = NoCall
  /\ \E outcome \in SortOutcomes(games, sortBy) :
       IF outcome = "thrown"
       THEN /\ failure' = "render"
            /\ UNCHANGED grid
       ELSE /\ grid' = [op |-> "handleSort", items |-> handleSort(games, sortBy)]
            /\ UNCHANGED failure
  /\ UNCHANGED <<activeTab, games, likedGames, recommendations, loading, startupVars,
                 filterVars, currentPage, totalPages, totalGames, detailVars,
                 methodVars, pending, quota, alert, ghostVars, pageNumbers,
                 storageVars, normVars, prefVars, titleGiven, image, imageBefore>>

NextSort ==
  \/ \E page \in SortPages, c \in SortCriteria : PageDelivered(page, c)
  \/ GridRendered

SpecSort == InitWith(0) /\ [][NextSort]_vars

\* the placeholder image on its own: getPlaceholderImage is called for one
\* title and then for another or the same one. The titles are every text of
\* up to MaxTitleLen characters out of a space, A and z, and longer texts up
\* to and beyond the 30 characters that are shown in full.
TitleChars == <<32, 65, 122>>

LongTitle(n) == [i \in 1..n |-> TitleChars[(i % 3) + 1]]

PlaceholderTitles ==
  UNION {[1..n -> Range(TitleChars)] : n \in 0..MaxTitleLen}
  \cup {LongTitle(n) : n \in {6, 7, 8, 12, 27, 30, 31, 40}}
  \cup {[i \in 1..n |-> 122] : n \in {6, 7, 8, 12, 27, 30, 31, 40}}

PlaceholderRequested(text) ==
  /\ imageBefore = NoCall
  /\ titleGiven' = text
  /\ image' = getPlaceholderImage(text)
  /\ imageBefore' = IF image = NoCall THEN NoCall
                    ELSE [op |-> "getPlaceholderImage", title |-> titleGiven,
                          image |-> image]
  /\ UNCHANGED <<activeTab, games, likedGames, recommendations, loading, startupVars,
                 filterVars, currentPage, totalPages, totalGames, detailVars,
                 methodVars, pending, quota, alert, ghostVars, pageNumbers,
                 storageVars, failure, normVars, prefVars, grid>>

NextPlaceholder == \E text \in PlaceholderTitles : PlaceholderRequested(text)

SpecPlaceholder == InitWith(0) /\ [][NextPlaceholder]_vars

\* progress: a user with one liked game stored opens the page, filters the
\* listing, opens the details of a game and asks for hybrid recommendations;
\* React runs the effects of the first render and the render they queue, and
\* every request that was issued is answered
Resolved(i) ==
  \/ \E o \in {"ok", "http_error"} : GamesParsed(i, o)
  \/ GamesThrew(i)
  \/ \E o \in Outcomes : DetailsAnswered(i, o)
  \/ \E d \in HybridBodies : HybridAnswered(i, d)
  \/ RecFetchFailed(i)

StartupStep == Startup \/ LikedGamesLoaded

NextLive ==
  \/ StartupStep
  \/ \E i \in Slots : Resolved(i)
  \/ \E t \in GameTypes : handleGameTypeChange(t)
  \/ \E g \in VisibleCards : viewGameDetails(g)
  \/ \E t \in {"explore", "hybrid"} : SwitchTab(t)
  \/ ClickGetHybrid

SpecLive ==
  /\ InitState(MaxLiveRequests, Stringify("array", <<Catalog[1]>>), NullGame)
  /\ [][NextLive]_vars
  /\ WF_vars(StartupStep)
  /\ \A i \in Slots : WF_vars(Resolved(i))

(***************************************************************************)
(* Properties                                                              *)
(***************************************************************************)
InFlight == {i \in Slots : pending[i].kind # "none"}

\* the sort_by/sort_order pair the service acts on: the last one of the URL
EffectiveSort(req) == req.sorts[Len(req.sorts)]

\* the pair each sort criterion stands for
ExpectedSort(c) ==
  CASE c = "alphabetical" -> <<"title", 1>>
    [] c = "price-low" -> <<"discounted_price", 1>>
    [] c = "price-high" -> <<"discounted_price", -1>>
    [] c = "rating" -> <<"overall_sentiment_score", -1>>
    [] c = "popularity" -> <<"popularity_score", -1>>

\* C1: once the latest-issued browse fetch has delivered its result, games,
\* currentPage and totalPages are the ones it delivered (and the same for the
\* latest-issued fetch of a recommendation mode while the slot holds a result
\* of that mode): an answer to an earlier fetch never overwrites them.
StaleResponseDiscarded ==
  /\ latestBrowse.done =>
       /\ games = latestBrowse.games
       /\ currentPage = latestBrowse.currentPage
       /\ totalPages = latestBrowse.totalPages
  /\ \A m \in RecModes :
       (latestRec[m].done /\ recommendations.method = m)
         => recommendations = latestRec[m].rec

\* C4: a listing or search fetch that fails (fetch rejected, body unparseable
\* or non-success status) leaves games, totalGames, totalPages and currentPage
\* as they were and raises a notice.
BrowseFailureRetainsState ==
  [][\A i \in Slots :
       (GamesThrew(i) \/ GamesParsed(i, "http_error")
          \/ SearchThrew(i) \/ SearchParsed(i, "http_error"))
       => (UNCHANGED browseVars /\ alert' # "none")]_vars

\* C5: while any fetch is outstanding the loading flag is set.
OutstandingFetchKeepsLoading ==
  (InFlight # {} \/ initStep \in Range(StartupFetches)) => loading = TRUE

\* C6: the step that selects a new sort criterion issues a request for page 1
\* that carries the pair of the newly selected criterion.
SortChangeRequestsNewCriterion ==
  [][sortBy' # sortBy =>
       \E i \in Slots :
         /\ pending[i].kind = "none"
         /\ pending'[i].kind = "games"
         /\ pending'[i].page = 1
         /\ EffectiveSort(pending'[i]) = ExpectedSort(sortBy')]_vars

\* C7: whenever the grid of the Explore tab is shown, the games appear in the
\* order the stored page has, which is the order the service returned.
DisplayedInServerOrder == GridShown => DisplayedGames = games

\* C8: a click on the pagination bar only ever asks for a page n with
\* 1 <= n <= totalPages, and the request it issues is for page n under the
\* current type filter and sort criterion, which the click leaves alone.
PageNavigationInRange ==
  [][\A n \in 0..(totalPages + currentPage + 1) :
       PageNavigation(n) =>
         /\ n >= 1
         /\ n <= totalPages
         /\ \E i \in Slots :
              /\ pending[i].kind = "none"
              /\ pending'[i] = GamesRequest(n, gameType, sortBy, FALSE)
         /\ UNCHANGED filterVars]_vars

\* C9: currentPage >= 1, totalPages >= 1 and totalGames >= 0 in every
\* reachable state.
PaginationStateValid ==
  /\ currentPage >= 1
  /\ totalPages >= 1
  /\ totalGames >= 0

\* C9 witness: a request for page 2 was answered with a body that has neither
\* total nor total_pages.
PaginationDefaultsApplied ==
  /\ currentPage = 2
  /\ totalPages = 1
  /\ totalGames = 0
  /\ games = <<>>
  /\ loading = FALSE

\* C2: a content or hybrid fetch asked for while likedGames is empty issues no
\* request, raises the precondition notice and leaves loading and
\* recommendations as they were.
EmptyLikedSetRefused ==
  [][((CallGetContent \/ CallGetHybrid) /\ Len(likedGames) = 0) =>
       /\ pending' = pending
       /\ alert' \in {"content_precondition", "hybrid_precondition"}
       /\ loading' = loading
       /\ recommendations' = recommendations]_vars

\* C2 witness: the notice is up, nothing is in flight and the result of an
\* earlier constraint fetch is still stored.
RefusedWithStoredResult ==
  /\ alert \in {"content_precondition", "hybrid_precondition"}
  /\ Len(likedGames) = 0
  /\ InFlight = {}
  /\ recommendations.method = "constraint"

\* C3: the step in which a content, constraint or hybrid fetch fails leaves
\* recommendations untouched, raises the error notice of its mode and clears
\* the loading flag.
RecFailureKeepsResult ==
  [][\A i \in Slots :
       RecFetchFailed(i)
       => /\ recommendations' = recommendations
          /\ alert' = pending[i].kind \o "_error"
          /\ loading' = FALSE]_vars

\* C3 witness: a fetch has just failed while the result of an earlier fetch
\* is stored.
FailedWithStoredResult ==
  /\ alert \in {"content_error", "constraint_error", "hybrid_error"}
  /\ recommendations # NullRec
  /\ loading = FALSE

\* C10: for totalPages >= 2 and 1 <= currentPage <= totalPages the rendered
\* page list is a run of min(5, totalPages) consecutive pages inside
\* 1..totalPages that contains currentPage, and it is
\* currentPage-2 .. currentPage+2 when both of these are pages.
PageWindowCorrect ==
  pageNumbers # <<>> =>
    /\ Len(pageNumbers) = Min(maxVisiblePages, totalPages)
    /\ \A i \in 1..(Len(pageNumbers) - 1) : pageNumbers[i + 1] = pageNumbers[i] + 1
    /\ \A i \in DOMAIN pageNumbers : pageNumbers[i] >= 1 /\ pageNumbers[i] <= totalPages
    /\ \E i \in DOMAIN pageNumbers : pageNumbers[i] = currentPage
    /\ (currentPage - 2 >= 1 /\ currentPage + 2 <= totalPages)
         => pageNumbers = [i \in 1..5 |-> currentPage - 3 + i]
    /\ (totalPages = 20 /\ currentPage = 1) => pageNumbers = <<1, 2, 3, 4, 5>>
    /\ (totalPages = 20 /\ currentPage = 20) => pageNumbers = <<16, 17, 18, 19, 20>>
    /\ (totalPages = 20 /\ currentPage = 10) => pageNumbers = <<8, 9, 10, 11, 12>>

\* C10 witness: the window at the last page of twenty.
WindowAtLastPage ==
  /\ totalPages = 20
  /\ currentPage = 20
  /\ pageNumbers = <<16, 17, 18, 19, 20>>

\* the effects of startup have run and nothing is queued for the next render
StartupEffectsDone == initStep \notin {"mount", "rerender"}

\* C18: in every state where no render is outstanding and the application
\* has not failed, localStorage holds the serialization of the likedGames in
\* memory; in particular after every toggleLike.
LikedSetPersisted ==
  (StartupEffectsDone /\ failure = "none")
    => storage = Stringify(likedShape, likedGames)

\* C18 witness: the one game that was stored when the page opened has been
\* unliked, and the empty list is what is stored now.
UnlikeWasSaved ==
  /\ bootStorage.kind = "json"
  /\ Len(bootStorage.items) = 1
  /\ Interactive
  /\ likedGames = <<>>
  /\ storage = Stringify("array", <<>>)

StoredNonEmpty == bootStorage.kind = "json" /\ bootStorage.items # <<>>

\* C19: when the page opens on a stored non-empty list S, then during startup
\* localStorage holds S in every state after the first, and once the load
\* and the persist effect have run likedGames is S.
StoredSetSurvivesStartup ==
  (StoredNonEmpty /\ initialLoading)
    => /\ storage = bootStorage
       /\ initStep # "mount" => (likedShape = "array" /\ likedGames = bootStorage.items)

StoredCorrupt ==
  bootStorage \in {StoredText("garbage"), StoredText("null")}

\* C20: when the page opens on a stored text that is not the JSON of a list,
\* likedGames is the empty array once the effects of startup have run, and no
\* render fails.
CorruptStorageYieldsEmpty ==
  (StoredCorrupt /\ StartupEffectsDone)
    => /\ failure = "none"
       /\ initialLoading => (likedShape = "array" /\ likedGames = <<>>)
\* C11: the type renderGameCard derives for an item is free exactly when the
\* item's current price is 0, whatever its discount; otherwise discount exactly
\* when its discount percent is above 0; otherwise paid; and an upstream type
\* label on the item does not change it.
ItemTypeFromPriceAndDiscount ==
  gameData # NullGame =>
    /\ (gameTypeAccurate = "free") <=> (gameData.discounted_price = 0)
    /\ (gameTypeAccurate = "discount")
         <=> (gameData.discounted_price # 0 /\ gameData.discount_percentage > 0)
    /\ (gameTypeAccurate = "paid")
         <=> (gameData.discounted_price # 0 /\ gameData.discount_percentage <= 0)
    /\ gameTypeAccurate
         = getAccurateGameType([f \in DOMAIN rawItem \ {"game_type"} |-> rawItem[f]])

\* C11 witness: an item labelled paid upstream, with a discount and a current
\* price of 0, is typed free.
FreeDespiteDiscountAndLabel ==
  /\ gameTypeAccurate = "free"
  /\ gameData # NullGame
  /\ gameData.discount_percentage > 0
  /\ Has(rawItem, "game_type")
  /\ rawItem["game_type"] = "paid"

\* C12: the card normalizer and the hybrid formatter resolve the current
\* price, the sentiment and the score of the same raw item to the same variant;
\* discounted_price 5 with price 10 gives current price 5 on both.
SamePriorityOnBothPaths ==
  (gameData # NullGame /\ formatted # NullGame) =>
    /\ gameData.discounted_price = formatted.discounted_price
    /\ gameData.overall_sentiment_score = formatted.overall_sentiment_score
    /\ gameData.score = formatted.score
    /\ (/\ Has(rawItem, "discounted_price") /\ rawItem["discounted_price"] = 5
        /\ Has(rawItem, "price") /\ rawItem["price"] = 10)
         => (gameData.discounted_price = 5 /\ formatted.discounted_price = 5)

\* C13: a first-priority field that is present with the value 0 gives the
\* normalized value 0, and the sentiment default appears only when no
\* sentiment variant is present.
PresentZeroWins ==
  gameData # NullGame =>
    /\ (Has(rawItem, "discounted_price") /\ rawItem["discounted_price"] = 0)
         => gameData.discounted_price = 0
    /\ (Has(rawItem, "overall_sentiment_score") /\ rawItem["overall_sentiment_score"] = 0)
         => gameData.overall_sentiment_score = 0
    /\ gameData.overall_sentiment_score = 5
         => ({"overall_sentiment_score", "sentiment"} \cap DOMAIN rawItem = {})

Attributes ==
  {"title", "developer", "publisher", "discounted_price", "original_price",
   "discount_percentage", "overall_sentiment_score", "all_reviews_count", "tags",
   "categories", "features", "languages", "link", "score"}

\* every attribute of the normalized item has a value, and an attribute none
\* of whose variants the raw item carries has its default
FullyDefined(item) ==
  /\ Attributes \subseteq DOMAIN item
  /\ ({"discounted_price", "price", "original_price"} \cap DOMAIN rawItem = {})
       => (item.discounted_price = 0 /\ item.original_price = 0)
  /\ ({"discount_percentage", "discount"} \cap DOMAIN rawItem = {})
       => item.discount_percentage = 0
  /\ ({"overall_sentiment_score", "sentiment"} \cap DOMAIN rawItem = {})
       => item.overall_sentiment_score = 5
  /\ ({"all_reviews_count", "reviews"} \cap DOMAIN rawItem = {})
       => item.all_reviews_count = 0
  /\ ({"score", "similarity", "hybrid_score"} \cap DOMAIN rawItem = {})
       => item.score = 0
  /\ \A f \in {"tags", "categories", "features", "languages"} :
       ~Has(rawItem, f) => item[f] = <<>>

\* C14: whatever subset of fields the raw item carries, the item the card
\* normalizer makes of it and the item the hybrid formatter makes of it have
\* a value for every attribute, with the defaults for what is missing.
NormalizationTotal ==
  /\ gameData # NullGame => FullyDefined(gameData)
  /\ formatted # NullGame => FullyDefined(formatted)

ListBefore == prefCall.before[prefCall.list]
ListAfter == preferences[prefCall.list]

Occurrences(list, value) == Cardinality({i \in DOMAIN list : list[i] = value})

\* C16: an add of a value the list already holds leaves the preferences as
\* they were, with one occurrence of the value; after any add of a non-blank
\* value the list holds it once; a remove of a value the list does not hold
\* leaves the preferences as they were.
PreferenceOpsIdempotent ==
  /\ (prefCall.op = "add" /\ Trim(prefCall.arg) # "")
       => Occurrences(ListAfter, Trim(prefCall.arg)) = 1
  /\ (prefCall.op = "add" /\ Trim(prefCall.arg) \in Range(ListBefore))
       => preferences = prefCall.before
  /\ (prefCall.op = "remove" /\ prefCall.arg \notin Range(ListBefore))
       => preferences = prefCall.before

\* C16 witness: the tag rpg has just been added to a list that already held it.
SecondAddChangedNothing ==
  /\ prefCall.op = "add"
  /\ prefCall.list = "preferred_tags"
  /\ prefCall.arg = "rpg"
  /\ "rpg" \in Range(ListBefore)
  /\ Occurrences(ListAfter, "rpg") = 1

\* the entries two lists share appear in the same order in both
SameOrder(old, new) ==
  \A i, j \in DOMAIN new, k, m \in DOMAIN old :
    (i < j /\ old[k] = new[i] /\ old[m] = new[j]) => k < m

\* C17: no preference list ever holds a duplicate, a blank entry or an
\* untrimmed entry; an add of a blank text changes nothing; the entries that
\* stay keep their order.
PreferencesWellFormed ==
  /\ \A l \in PrefLists :
       /\ \A i, j \in DOMAIN preferences[l] :
            preferences[l][i] = preferences[l][j] => i = j
       /\ \A i \in DOMAIN preferences[l] :
            Trim(preferences[l][i]) # "" /\ Trim(preferences[l][i]) = preferences[l][i]
  /\ (prefCall.op = "add" /\ Trim(prefCall.arg) = "") => preferences = prefCall.before
  /\ prefCall.op # "none" =>
       /\ SameOrder(ListBefore, ListAfter)
       /\ Range(ListBefore) \ {prefCall.arg, Trim(prefCall.arg)} \subseteq Range(ListAfter)

\* C17 witness: an untrimmed text was added to a list that held another
\* entry; the trimmed text is stored after it.
UntrimmedAddStoredTrimmed ==
  /\ prefCall.op = "add"
  /\ prefCall.arg = " rpg "
  /\ ListBefore = <<"fps">>
  /\ ListAfter = <<"fps", "rpg">>
\* the slots a step puts a request in
Issued == {i \in Slots : pending[i].kind = "none" /\ pending'[i].kind # "none"}

\* C21: every step that enters the Stats tab issues exactly one request, the
\* metrics fetch.
StatsEntryFetchesMetrics ==
  [][(activeTab # "stats" /\ activeTab' = "stats")
       => (Cardinality(Issued) = 1 /\ \A i \in Issued : pending'[i].kind = "stats")]_vars

\* C22: a submit of the search, a change of the type filter or a change of the
\* sort issues, when the search text is not blank, a request to the search
\* endpoint with that text and the current type filter, and when it is
\* blank a request to the listing endpoint for page 1.
BrowseFetchFollowsQuery ==
  [][(\/ handleSearch
      \/ \E t \in GameTypes : handleGameTypeChange(t)
      \/ \E c \in SortCriteria : handleSortChange(c))
       => /\ Issued # {}
          /\ \A i \in Issued :
               IF Trim(searchQuery) # ""
               THEN /\ pending'[i].kind = "search"
                    /\ pending'[i].q = searchQuery
                    /\ pending'[i].game_type = (IF gameType' # "all" THEN gameType' ELSE "none")
               ELSE /\ pending'[i].kind = "games"
                    /\ pending'[i].page = 1]_vars

IsSequence(x) == DOMAIN x = 1..Len(x)

\* the buckets of a stored result are exactly the given ones, each a sequence:
\* the one the response carries, or the empty one
BucketsDefined(rec, data, buckets) ==
  /\ DOMAIN rec.data.results = buckets
  /\ \A b \in buckets :
       /\ IsSequence(rec.data.results[b].games)
       /\ rec.data.results[b].games
            = (IF Has(data, "results") /\ Has(data.results, b)
               THEN data.results[b].games ELSE <<>>)

\* C23: the step that stores the answer of a content or constraint fetch
\* leaves a result tagged with that mode whose three buckets are sequences,
\* empty where the response has none; the step that stores the answer of a
\* hybrid fetch leaves a result tagged hybrid with one sequence, empty when
\* the response has none.
SuccessReplacesResult ==
  [][\A i \in Slots :
       /\ \A d \in ContentBodies : ContentAnswered(i, d) =>
            /\ recommendations'.method = "content"
            /\ BucketsDefined(recommendations', d,
                 {"highly_similar", "moderately_similar", "somewhat_similar"})
       /\ \A d \in ConstraintBodies : ConstraintAnswered(i, d) =>
            /\ recommendations'.method = "constraint"
            /\ BucketsDefined(recommendations', d,
                 {"perfect_matches", "good_matches", "partial_matches"})
       /\ \A d \in HybridBodies : HybridAnswered(i, d) =>
            /\ recommendations'.method = "hybrid"
            /\ DOMAIN recommendations'.data = {"recommendations"}
            /\ IsSequence(recommendations'.data.recommendations)
            /\ Len(recommendations'.data.recommendations)
                 = (IF Has(d, "recommendations") THEN Len(d.recommendations) ELSE 0)]_vars

\* C23 witness: a content answer with one bucket is stored; the two buckets
\* it lacks are empty.
MissingBucketsStoredEmpty ==
  /\ recommendations.method = "content"
  /\ recommendations.data.results.highly_similar.games = <<Catalog[5]>>
  /\ recommendations.data.results.moderately_similar.games = <<>>
  /\ recommendations.data.results.somewhat_similar.games = <<>>

\* C27: currentPage never exceeds totalPages.
CurrentPageWithinTotal == currentPage <= totalPages

\* C28: the result a recommendation tab shows is tagged with the mode of the
\* tab and has the shape of that mode's results.
TabShowsOwnMode ==
  RecShown =>
    /\ recommendations.method = activeTab
    /\ activeTab = "content" =>
         DOMAIN recommendations.data.results
           = {"highly_similar", "moderately_similar", "somewhat_similar"}
    /\ activeTab = "constraint" =>
         DOMAIN recommendations.data.results
           = {"perfect_matches", "good_matches", "partial_matches"}
    /\ activeTab = "hybrid" => DOMAIN recommendations.data = {"recommendations"}

\* C28 witness: the Constraint tab shows a constraint result after a content
\* fetch has delivered its result to the same slot.
ConstraintShownAfterContent ==
  /\ RecShown
  /\ activeTab = "constraint"
  /\ latestRec["content"].done
TitleSet(gs) == {gs[i].title : i \in DOMAIN gs}

\* C25: no two liked games ever share a title; a toggleLike of a game whose
\* title is liked leaves no liked game with that title and keeps the others
\* in their order; a toggleLike of a game whose title is not liked appends the
\* game. The set of liked titles therefore flips on the one title, and two
\* toggles of the same game in a row restore it.
LikedKeyedByTitle ==
  [][/\ \A i, j \in DOMAIN likedGames' :
          likedGames'[i].title = likedGames'[j].title => i = j
     /\ \A g \in VisibleCards : toggleLike(g) =>
          IF g.title \in TitleSet(likedGames)
          THEN /\ likedGames' = SelectSeq(likedGames, LAMBDA x : x.title # g.title)
               /\ TitleSet(likedGames') = TitleSet(likedGames) \ {g.title}
          ELSE /\ likedGames' = Append(likedGames, g)
               /\ TitleSet(likedGames') = TitleSet(likedGames) \cup {g.title}]_vars

\* C25 witness: two games were stored, one of them Echo at an old price; Echo
\* has been unliked and the other game is still liked.
StaleLikeRemoved ==
  /\ bootStorage.kind = "json"
  /\ Len(bootStorage.items) = 2
  /\ StaleEcho \in Range(bootStorage.items)
  /\ Interactive
  /\ Len(likedGames) = 1
  /\ "Echo" \notin TitleSet(likedGames)
StartupFailed == \E i \in DOMAIN startupLog : startupLog[i].outcome # "ok"

\* C30: the startup fetches are answered in the order stats, tags, languages,
\* developers, publishers; a startup fetch or the initial browse fetch is
\* issued only when every earlier startup fetch succeeded; once one of them
\* has failed (rejected, unreadable body, or non-success status) nothing
\* more is issued and games stays empty.
StartupOrdering ==
  /\ \A i \in DOMAIN startupLog : startupLog[i].fetch = StartupFetches[i]
  /\ StartupFailed =>
       /\ initStep \notin Range(StartupFetches) \cup {"games"}
       /\ \A i \in Slots : pending[i].kind = "none"
       /\ games = <<>>
\* C26: the client-side sort raises no error for any criterion and any page
\* of items with fields missing, and what it returns holds the items of the
\* stored page, each as often as the page does.
SortTotalAndNonDestructive ==
  /\ failure # "render"
  /\ grid # NoCall =>
       /\ Len(grid.items) = Len(games)
       /\ \A g \in Range(games) \cup Range(grid.items) :
            Occurrences(grid.items, g) = Occurrences(games, g)
LoadingNeverLeftOn == []<>(initialLoading = FALSE /\ loading = FALSE)

\* C29 witness: the user has spent every request on a details fetch and a
\* hybrid fetch, both were answered, and nothing is loading.
AllFetchesResolved ==
  /\ initStep = "done"
  /\ quota = 0
  /\ InFlight = {}
  /\ selectedGame # NullGame
  /\ latestRec["hybrid"].done
  /\ initialLoading = FALSE
  /\ loading = FALSE
====
